---- MODULE Spec2Model ----
(***************************************************************************)
(* A model of claude_cli.py: the start-up credential check, the argument   *)
(* dispatch of main, the single-result handlers, the three folder handlers *)
(* (fix-folder, refactor-folder, rewrite-folder) step by step, and the     *)
(* pure helpers detect_language and the prompt builders.                   *)
(*                                                                         *)
(* Text is modelled as sequences: a file or directory name is a sequence   *)
(* of one-character strings (so that suffix extraction, lower-casing and   *)
(* name concatenation are computed, not assumed); a path is a sequence of  *)
(* names (Path(".") is the empty sequence); a prompt, a file's text and a  *)
(* reply are sequences of text fragments.                                  *)
(*                                                                         *)
(* Modelling range: file contents are decodable text, and the operating    *)
(* system carries out every read, mkdir and write the code issues          *)
(* (no permission, encoding or disk-full failure).  Failures the code      *)
(* itself decides are modelled: the missing credential, a missing file in  *)
(* read_file, an invalid batch root, a failing completion call, and        *)
(* Path.with_name on a path whose name is empty.                           *)
(***************************************************************************)
EXTENDS Integers, Sequences, FiniteSets, TLC

(***************************************************************************)
(* Bounds of the model.                                                    *)
(***************************************************************************)
\* how many optional arguments one command line of the dispatch runs gives
MaxFlags == 2
\* how many entries the input tree under the batch root holds
MaxFiles == 3
\* how many files exist beforehand under the output locations
MaxStale == 1
\* how many fragments a file text of the prompt-builder runs holds
MaxText == 2

(***************************************************************************)
(* Characters and names.                                                   *)
(***************************************************************************)
UpperAlpha ==
  <<"A","B","C","D","E","F","G","H","I","J","K","L","M",
    "N","O","P","Q","R","S","T","U","V","W","X","Y","Z">>

LowerAlpha ==
  <<"a","b","c","d","e","f","g","h","i","j","k","l","m",
    "n","o","p","q","r","s","t","u","v","w","x","y","z">>

\* str.lower on one character
LowerChar(c) ==
  IF \E i \in 1..26 : UpperAlpha[i] = c
    THEN LowerAlpha[CHOOSE i \in 1..26 : UpperAlpha[i] = c]
    ELSE c

\* str.lower
Lower(s) == [i \in 1..Len(s) |-> LowerChar(s[i])]

\* str.upper (used only to build differently-cased inputs)
UpperChar(c) ==
  IF \E i \in 1..26 : LowerAlpha[i] = c
    THEN UpperAlpha[CHOOSE i \in 1..26 : LowerAlpha[i] = c]
    ELSE c

Upper(s) == [i \in 1..Len(s) |-> UpperChar(s[i])]

\* str.rfind(".") : the last index of a dot, 0 when there is none
RFindDot(name) ==
  IF \E i \in 1..Len(name) : name[i] = "."
    THEN CHOOSE i \in 1..Len(name) :
           /\ name[i] = "."
           /\ \A j \in (i+1)..Len(name) : name[j] # "."
    ELSE 0

\* PurePath.suffix of a final path component: the text from the last dot,
\* unless that dot is the first or the last character of the name
Suffix(name) ==
  LET i == RFindDot(name)
  IN  IF 1 < i /\ i < Len(name) THEN SubSeq(name, i, Len(name)) ELSE <<>>

(***************************************************************************)
(* LANGUAGE SUPPORT                                                        *)
(***************************************************************************)
SUPPORTED_EXTS ==
  { <<".","p","y">>, <<".","p","y","w">>,
    <<".","c">>, <<".","c","p","p">>, <<".","c","c">>, <<".","c","x","x">>,
    <<".","h">>, <<".","h","p","p">>,
    <<".","j","a","v","a">>,
    <<".","k","t">>, <<".","k","t","s">>,
    <<".","j","s">>, <<".","j","s","x">>,
    <<".","t","s">>, <<".","t","s","x">>,
    <<".","c","s">>,
    <<".","g","o">>,
    <<".","r","s">>,
    <<".","p","h","p">>,
    <<".","h","t","m","l">>, <<".","h","t","m">>,
    <<".","c","s","s">>,
    <<".","j","s","o","n">>,
    <<".","y","a","m","l">>, <<".","y","m","l">>,
    <<".","x","m","l">> }

\* the if-chain of detect_language on an already extracted extension
LanguageOfExt(ext) ==
  IF ext \in { <<".","p","y">>, <<".","p","y","w">> } THEN "python"
  ELSE IF ext \in { <<".","c">>, <<".","c","p","p">>, <<".","c","c">>,
                    <<".","c","x","x">>, <<".","h">>, <<".","h","p","p">> }
    THEN "cpp"
  ELSE IF ext = <<".","j","a","v","a">> THEN "java"
  ELSE IF ext \in { <<".","k","t">>, <<".","k","t","s">> } THEN "kotlin"
  ELSE IF ext \in { <<".","j","s">>, <<".","j","s","x">> } THEN "javascript"
  ELSE IF ext \in { <<".","t","s">>, <<".","t","s","x">> } THEN "typescript"
  ELSE IF ext = <<".","c","s">> THEN "csharp"
  ELSE IF ext = <<".","g","o">> THEN "go"
  ELSE IF ext = <<".","r","s">> THEN "rust"
  ELSE IF ext = <<".","p","h","p">> THEN "php"
  ELSE IF ext \in { <<".","h","t","m","l">>, <<".","h","t","m">> } THEN "html"
  ELSE IF ext = <<".","c","s","s">> THEN "css"
  ELSE IF ext = <<".","j","s","o","n">> THEN "json"
  ELSE IF ext \in { <<".","y","a","m","l">>, <<".","y","m","l">> } THEN "yaml"
  ELSE IF ext = <<".","x","m","l">> THEN "xml"
  ELSE "text"

\* ext = path.suffix.lower()
LoweredSuffix(name) == Lower(Suffix(name))

\* detect_language with the extension taken as written, not lower-cased
detect_language_case_sensitive(name) == LanguageOfExt(Suffix(name))

\* detect_language(path), on the final component of the path
detect_language(name) == LanguageOfExt(LoweredSuffix(name))

(***************************************************************************)
(* Rendering of names and paths as text.                                   *)
(***************************************************************************)
RECURSIVE Join(_)
\* "".join(chars)
Join(chars) == IF chars = <<>> THEN "" ELSE Head(chars) \o Join(Tail(chars))

RECURSIVE PathChars(_)
\* str(path) as characters: the components joined by "/", "." for the empty path
PathChars(p) ==
  IF p = <<>> THEN << "." >>
  ELSE IF Len(p) = 1 THEN p[1]
  ELSE PathChars(SubSeq(p, 1, Len(p) - 1)) \o << "/" >> \o p[Len(p)]

\* str(path) as one text
PathStr(p) == Join(PathChars(p))

\* path.name: the final component, empty for Path(".")
PathName(p) == IF p = <<>> THEN <<>> ELSE p[Len(p)]

\* path.parent
PathParent(p) == IF p = <<>> THEN <<>> ELSE SubSeq(p, 1, Len(p) - 1)

RECURSIVE Components(_, _, _)
\* s.split("/") from index i on, cur being the component read so far
Components(s, i, cur) ==
  IF i > Len(s) THEN << cur >>
  ELSE IF s[i] = "/" THEN << cur >> \o Components(s, i + 1, << >>)
  ELSE Components(s, i + 1, Append(cur, s[i]))

\* Path(s) for a relative path string: empty and "." components are dropped
Path(s) ==
  LET IsName(c) == c # << >> /\ c # << "." >>
  IN  SelectSeq(Components(s, 1, << >>), IsName)

(***************************************************************************)
(* PROMPT BUILDERS (LANGUAGE-AWARE FIX / REFACTOR / REWRITE)               *)
(* A prompt is the sequence of the text fragments the code concatenates.   *)
(***************************************************************************)
\* lang.upper() for the two tags it is applied to
UpperTag(lang) == IF lang = "html" THEN "HTML" ELSE "CSS"

_lang_header_fix(lang) ==
  IF lang = "python" THEN
    << "You are a senior Python engineer.\n",
       "Fix all bugs, inefficiencies, missing checks, and anti-patterns.\n",
       "Preserve EXACT external behavior and public API.\n\n" >>
  ELSE IF lang = "cpp" THEN
    << "You are a senior C++17 engineer.\n",
       "Fix all bugs, undefined behavior, memory issues, and anti-patterns.\n",
       "Prefer RAII, smart pointers, const-correctness, and modern STL.\n",
       "Preserve observable behavior and public interface.\n\n" >>
  ELSE IF lang = "java" THEN
    << "You are a senior Java engineer.\n",
       "Fix all bugs and anti-patterns using modern Java best practices.\n",
       "Preserve behavior and public API.\n\n" >>
  ELSE IF lang = "kotlin" THEN
    << "You are a senior Kotlin/Android engineer.\n",
       "Fix all bugs and improve safety using idiomatic Kotlin.\n",
       "Preserve behavior and public API.\n\n" >>
  ELSE IF lang \in {"javascript", "typescript"} THEN
    << "You are a senior " \o lang \o " engineer.\n",
       "Fix all bugs, race conditions, and performance issues.\n",
       "Use modern language features and best practices.\n",
       "Preserve the observable behavior.\n\n" >>
  ELSE IF lang \in {"html", "css"} THEN
    << "You are a senior " \o UpperTag(lang) \o " engineer.\n",
       "Clean up structure, fix obvious issues, and keep the same visual behavior.\n\n" >>
  ELSE
    << "You are a senior software engineer.\n",
       "Fix all obvious bugs, inefficiencies, missing checks, and anti-patterns.\n",
       "Preserve the same external behavior and semantics.\n\n" >>

_lang_header_refactor(lang) ==
  IF lang = "python" THEN
    << "You are a senior Python engineer.\n",
       "Refactor this file for readability, maintainability, structure, and comments.\n",
       "Maintain EXACT external behavior.\n\n" >>
  ELSE IF lang = "cpp" THEN
    << "You are a senior C++17 engineer.\n",
       "Refactor for clarity, RAII, const-correctness, and better structure.\n",
       "Keep the public API and semantics unchanged.\n\n" >>
  ELSE IF lang = "java" THEN
    << "You are a senior Java engineer.\n",
       "Refactor using clean OOP design, clear naming, and modern Java patterns.\n",
       "Maintain existing behavior and public API.\n\n" >>
  ELSE IF lang = "kotlin" THEN
    << "You are a senior Kotlin/Android engineer.\n",
       "Refactor to idiomatic Kotlin, improving null-safety and readability.\n",
       "Preserve behavior and signatures.\n\n" >>
  ELSE IF lang \in {"javascript", "typescript"} THEN
    << "You are a senior " \o lang \o " engineer.\n",
       "Refactor for readability, modularity, and maintainability.\n",
       "Use modern language features. Preserve behavior.\n\n" >>
  ELSE IF lang \in {"html", "css"} THEN
    << "You are a senior " \o UpperTag(lang) \o " engineer.\n",
       "Refactor for cleaner structure, semantics, and maintainability.\n",
       "Keep the same visual behavior.\n\n" >>
  ELSE
    << "You are a senior software engineer.\n",
       "Refactor this file for readability, maintainability, structure, and comments.\n",
       "Maintain the same external behavior.\n\n" >>

\* the local "base" of _lang_header_rewrite
RewriteBase ==
  << "You are a principal-level software architect.\n",
     "Completely REWRITE this module with a modern, clean, modular architecture.\n",
     "You MAY:\n",
     "- change function and class names\n",
     "- split large functions into smaller ones\n",
     "- introduce classes or interfaces where appropriate\n",
     "- reorganize responsibilities (I/O vs core logic vs config)\n",
     "- move script-style code into a main() or classes\n",
     "- remove dead code and legacy hacks\n",
     "You MUST:\n",
     "- preserve the overall PURPOSE of the module\n",
     "- keep it usable in the same general context\n",
     "- write idiomatic, production-quality code for this language\n",
     "- add clear docstrings/comments where helpful\n\n" >>

_lang_header_rewrite(lang) ==
  IF lang = "python" THEN
    RewriteBase \o << "Language: Python. Use modern Python best practices (type hints, clear modules).\n\n" >>
  ELSE IF lang = "cpp" THEN
    RewriteBase \o << "Language: C++17. Use RAII, smart pointers, STL, and avoid raw new/delete where possible.\n\n" >>
  ELSE IF lang = "java" THEN
    RewriteBase \o << "Language: Java. Use clear packages, interfaces, and patterns.\n\n" >>
  ELSE IF lang = "kotlin" THEN
    RewriteBase \o << "Language: Kotlin. Use idiomatic Kotlin with data classes, extension functions, and proper null-safety.\n\n" >>
  ELSE IF lang \in {"javascript", "typescript"} THEN
    RewriteBase \o << "Language: " \o lang \o ". Use modern modules, async/await, and clear separation of concerns.\n\n" >>
  ELSE IF lang \in {"html", "css"} THEN
    RewriteBase \o << "Language: " \o UpperTag(lang) \o ". Use semantic structure and maintain visual intent.\n\n" >>
  ELSE
    RewriteBase \o << "Language: generic code/text.\n\n" >>

\* the closing line of build_rewrite_prompt, without its line terminator
DIRECTIVE == "Now output ONLY the full rewritten file content."

\* build_fix_prompt(path) for the path string s, given the text read_file returned
build_fix_prompt(s, text) ==
  _lang_header_fix(detect_language(PathName(Path(s))))
    \o << "File path: " \o Join(s) \o "\n\n",
          "Current content:\n",
          "----------------\n" >>
    \o text
    \o << "\n", "----------------\n" >>

\* build_refactor_prompt(path) for the path string s, given the text read_file returned
build_refactor_prompt(s, text) ==
  _lang_header_refactor(detect_language(PathName(Path(s))))
    \o << "File path: " \o Join(s) \o "\n\n",
          "Current content:\n",
          "----------------\n" >>
    \o text
    \o << "\n", "----------------\n" >>

\* build_rewrite_prompt closing like the other two builders, without the directive
build_rewrite_prompt_no_directive(s, text) ==
  _lang_header_rewrite(detect_language(PathName(Path(s))))
    \o << "Original file path: " \o Join(s) \o "\n\n",
          "Original file content:\n",
          "----------------------\n" >>
    \o text
    \o << "\n", "----------------------\n" >>

\* build_rewrite_prompt(path) for the path string s, given the text read_file returned
build_rewrite_prompt(s, text) ==
  _lang_header_rewrite(detect_language(PathName(Path(s))))
    \o << "Original file path: " \o Join(s) \o "\n\n",
          "Original file content:\n",
          "----------------------\n" >>
    \o text
    \o << "\n", "----------------------\n", DIRECTIVE, "\n" >>

(***************************************************************************)
(* Strings of the command line (S_...) and names on disk (N_...), as       *)
(* character sequences.                                                    *)
(***************************************************************************)
\* ''
S_empty == << >>

\* '.'
S_dot == <<".">>

\* 'proj'
S_proj == <<"p","r","o","j">>

\* 'a.py'
S_a_py == <<"a",".","p","y">>

\* 'gone.py'
S_gone_py == <<"g","o","n","e",".","p","y">>

\* 'out/res.txt'
S_out == <<"o","u","t","/","r","e","s",".","t","x","t">>

\* 'q'
S_question == <<"q">>

\* 's'
S_spec == <<"s">>

\* 'hi'
S_prompt == <<"h","i">>

\* 'proj'
N_proj == <<"p","r","o","j">>

\* 'a.py'
N_a_py == <<"a",".","p","y">>

\* 'out'
N_out == <<"o","u","t">>

\* 'res.txt'
N_res_txt == <<"r","e","s",".","t","x","t">>

\* 'main.py'
N_main_py == <<"m","a","i","n",".","p","y">>

\* 'sub'
N_sub == <<"s","u","b">>

\* 'Util.CPP'
N_Util_CPP == <<"U","t","i","l",".","C","P","P">>

\* 'notes.txt'
N_notes_txt == <<"n","o","t","e","s",".","t","x","t">>

\* '.py'
N_dot_py == <<".","p","y">>

\* 'pkg.js'
N_pkg_js == <<"p","k","g",".","j","s">>

\* 'deep'
N_deep == <<"d","e","e","p">>

\* 'App.java'
N_App_java == <<"A","p","p",".","j","a","v","a">>

\* 'old.py'
N_old_py == <<"o","l","d",".","p","y">>

\* '_fixed'
SFX_fixed == <<"_","f","i","x","e","d">>

\* '_refactored'
SFX_refactored == <<"_","r","e","f","a","c","t","o","r","e","d">>

\* '_rewritten'
SFX_rewritten == <<"_","r","e","w","r","i","t","t","e","n">>

(***************************************************************************)
(* Paths and the file system.  The disk is a function from paths to        *)
(* entries; the current directory (the empty path) always exists.          *)
(***************************************************************************)
DirEntry == [kind |-> "dir", text |-> << >>]

FileEntry(text) == [kind |-> "file", text |-> text]

\* Path.exists
Exists(d, p) == p = << >> \/ p \in DOMAIN d

\* Path.is_dir
IsDir(d, p) == p = << >> \/ (p \in DOMAIN d /\ d[p].kind = "dir")

\* Path.is_file
IsFile(d, p) == p \in DOMAIN d /\ d[p].kind = "file"

\* p lies below root
Under(p, root) == Len(p) > Len(root) /\ SubSeq(p, 1, Len(root)) = root

\* src.relative_to(root)
RelativeTo(p, root) == SubSeq(p, Len(root) + 1, Len(p))

\* root.rglob("*"): every entry below root
RGlob(d, root) == { p \in DOMAIN d : Under(p, root) }

\* iter_code_files with the extension compared as written, not lower-cased
iter_code_files_case_sensitive(d, root) ==
  { p \in RGlob(d, root) :
      IsFile(d, p) /\ Suffix(PathName(p)) \in SUPPORTED_EXTS }

\* iter_code_files(root)
iter_code_files(d, root) ==
  { p \in RGlob(d, root) :
      IsFile(d, p) /\ LoweredSuffix(PathName(p)) \in SUPPORTED_EXTS }

\* the non-empty prefixes of a directory path
Prefixes(dir) == { SubSeq(dir, 1, n) : n \in 1..Len(dir) }

\* dir.mkdir(parents=True, exist_ok=True)
MkdirParents(d, dir) ==
  [ p \in DOMAIN d \cup Prefixes(dir) |-> IF p \in DOMAIN d THEN d[p] ELSE DirEntry ]

\* path.write_text(text): creates or overwrites the file
WriteText(d, p, text) ==
  [ q \in DOMAIN d \cup {p} |-> IF q = p THEN FileEntry(text) ELSE d[q] ]

\* root.with_name(root.name + suffix); raises ValueError when root.name is empty
WithNameRaises(root) == PathName(root) = << >>

WithName(root, suffix) == Append(PathParent(root), PathName(root) \o suffix)

\* read_file without the existence check, a missing file reading as empty
read_file_missing_as_empty(d, s) ==
  LET p == Path(s)
  IN  IF IsFile(d, p) THEN [ok |-> TRUE, error |-> "", text |-> d[p].text]
      ELSE IF Exists(d, p) THEN [ok |-> FALSE, error |-> "IsADirectoryError", text |-> << >>]
      ELSE [ok |-> TRUE, error |-> "", text |-> << >>]

\* read_file(path): the text, or the exception raised
read_file(d, s) ==
  LET p == Path(s)
  IN  IF ~Exists(d, p) THEN [ok |-> FALSE, error |-> "FileNotFoundError", text |-> << >>]
      ELSE IF ~IsFile(d, p) THEN [ok |-> FALSE, error |-> "IsADirectoryError", text |-> << >>]
      ELSE [ok |-> TRUE, error |-> "", text |-> d[p].text]

(***************************************************************************)
(* CLAUDE CALL                                                             *)
(***************************************************************************)
MODEL_NAME == "claude-3-haiku-20240307"

\* defaults of call_claude's parameters; the temperature is kept as its literal
CallDefaultMaxTokens == 4096

CallDefaultTemperature == "0.1"

API_ERROR_PREFIX == "[API ERROR] "

\* what client.messages.create can do: return a first text block, or fail
ApiOutcomes == {"ok", "fail"}

\* the request call_claude hands to client.messages.create
Request(prompt, max_tokens, temperature) ==
  [ model |-> MODEL_NAME, max_tokens |-> max_tokens,
    temperature |-> temperature, messages |-> prompt ]

\* the value call_claude returns for an outcome of the service
call_claude_result(outcome) ==
  IF outcome = "ok" THEN << "OK" >>
  ELSE << API_ERROR_PREFIX, "service failure" >>

(***************************************************************************)
(* ARGUMENT PARSER.  The command line is a set of [opt, val] pairs; in the *)
(* parsed namespace an option is << >> (None) or << value >>.              *)
(***************************************************************************)
ParserDefaultMaxTokens == 4096

ParserDefaultTemperature == "0.1"

Arg(argv, name) ==
  IF \E o \in argv : o.opt = name
    THEN << (CHOOSE o \in argv : o.opt = name).val >>
    ELSE << >>

\* build_parser().parse_args()
parse_args(argv) ==
  [ prompt          |-> Arg(argv, "prompt"),
    file            |-> Arg(argv, "file"),
    explain         |-> Arg(argv, "explain"),
    fix             |-> Arg(argv, "fix"),
    refactor        |-> Arg(argv, "refactor"),
    analyze_folder  |-> Arg(argv, "analyze_folder"),
    project_qa      |-> Arg(argv, "project_qa"),
    question        |-> Arg(argv, "question"),
    generate_file   |-> Arg(argv, "generate_file"),
    diff            |-> Arg(argv, "diff"),
    fix_folder      |-> Arg(argv, "fix_folder"),
    refactor_folder |-> Arg(argv, "refactor_folder"),
    rewrite_folder  |-> Arg(argv, "rewrite_folder"),
    out             |-> Arg(argv, "out"),
    max_tokens      |-> IF Arg(argv, "max_tokens") = << >>
                          THEN ParserDefaultMaxTokens
                          ELSE Arg(argv, "max_tokens")[1],
    temperature     |-> IF Arg(argv, "temperature") = << >>
                          THEN ParserDefaultTemperature
                          ELSE Arg(argv, "temperature")[1] ]

\* Python truth of an option: not None and not empty
Truthy(a) == a # << >> /\ a[1] # << >>

\* "a or ''"
OrEmpty(a) == IF Truthy(a) THEN a[1] ELSE << >>

(***************************************************************************)
(* FILE HELPERS: write_output_if_needed, as the new standard output and    *)
(* the new disk.  Standard output is the sequence of the printed texts.    *)
(***************************************************************************)
\* write_output_if_needed printing the content before it looks at --out
write_output_if_needed_prints_too(a, content, so, d) ==
  IF ~Truthy(a.out)
    THEN [stdout |-> Append(so, content), disk |-> d]
    ELSE LET out_path == Path(a.out[1])
         IN  [ stdout |-> so \o << content, << "\n[OK] Written to " \o PathStr(out_path) \o "\n" >> >>,
               disk   |-> WriteText(MkdirParents(d, PathParent(out_path)), out_path, content) ]

\* write_output_if_needed(args, content)
write_output_if_needed(a, content, so, d) ==
  IF ~Truthy(a.out)
    THEN [stdout |-> Append(so, content), disk |-> d]
    ELSE LET out_path == Path(a.out[1])
         IN  [ stdout |-> Append(so, << "\n[OK] Written to " \o PathStr(out_path) \o "\n" >>),
               disk   |-> WriteText(MkdirParents(d, PathParent(out_path)), out_path, content) ]

(***************************************************************************)
(* MAIN: the handler the if-chain of main selects                          *)
(***************************************************************************)
\* the if-chain with the tests of --explain and --fix exchanged
SelectHandler_fix_first(a) ==
  IF Truthy(a.fix) THEN "run_fix"
  ELSE IF Truthy(a.explain) THEN "run_explain"
  ELSE IF Truthy(a.refactor) THEN "run_refactor"
  ELSE IF Truthy(a.analyze_folder) THEN "run_analyze_folder"
  ELSE IF Truthy(a.project_qa) /\ Truthy(a.question) THEN "run_project_qa"
  ELSE IF Truthy(a.generate_file) THEN "run_generate_file"
  ELSE IF Truthy(a.diff) THEN "run_diff"
  ELSE IF Truthy(a.fix_folder) THEN "run_fix_folder"
  ELSE IF Truthy(a.refactor_folder) THEN "run_refactor_folder"
  ELSE IF Truthy(a.rewrite_folder) THEN "run_rewrite_folder"
  ELSE "run_one_shot"

SelectHandler(a) ==
  IF Truthy(a.explain) THEN "run_explain"
  ELSE IF Truthy(a.fix) THEN "run_fix"
  ELSE IF Truthy(a.refactor) THEN "run_refactor"
  ELSE IF Truthy(a.analyze_folder) THEN "run_analyze_folder"
  ELSE IF Truthy(a.project_qa) /\ Truthy(a.question) THEN "run_project_qa"
  ELSE IF Truthy(a.generate_file) THEN "run_generate_file"
  ELSE IF Truthy(a.diff) THEN "run_diff"
  ELSE IF Truthy(a.fix_folder) THEN "run_fix_folder"
  ELSE IF Truthy(a.refactor_folder) THEN "run_refactor_folder"
  ELSE IF Truthy(a.rewrite_folder) THEN "run_rewrite_folder"
  ELSE "run_one_shot"

(***************************************************************************)
(* PROMPT BUILDERS (ONE-SHOT / EXPLAIN) and PROJECT-LEVEL PROMPTS          *)
(***************************************************************************)
\* build_single_prompt(args) when args.file is set, given the text read
build_single_prompt_file(a, text) ==
  << "You are an expert senior software engineer.\n",
     "File: " \o Join(a.file[1]) \o "\n\n" >>
    \o text
    \o << "\n\n", "User request: " \o Join(OrEmpty(a.prompt)) >>

\* build_single_prompt(args) when args.file is not set
build_single_prompt_plain(a) == << Join(OrEmpty(a.prompt)) >>

\* build_explain_prompt(path), given the text read
build_explain_prompt(s, text) ==
  << "Explain the following file in full detail:\n",
     "- overall purpose\n",
     "- key functions/classes\n",
     "- how data flows\n",
     "- important design decisions\n",
     "- potential pitfalls\n\n",
     "Path: " \o Join(s) \o "\n\n" >>
    \o text

RECURSIVE JoinLines(_)
\* "\n".join(str(p) for p in order)
JoinLines(order) ==
  IF order = << >> THEN << >>
  ELSE IF Len(order) = 1 THEN << PathStr(order[1]) >>
  ELSE << PathStr(order[1]), "\n" >> \o JoinLines(Tail(order))

\* the listing restricted to the files iter_code_files yields
ListedEntries_supported_only(d, folder) == iter_code_files(d, folder)

\* the entries the two project-level builders list: rglob("*") if p.is_file()
ListedEntries(d, folder) == { p \in RGlob(d, folder) : IsFile(d, p) }

\* the orders in which the file system may enumerate a set of entries
Orders(S) ==
  { f \in [1..Cardinality(S) -> S] : \A i, j \in 1..Cardinality(S) : f[i] = f[j] => i = j }

\* build_folder_analysis_prompt(folder), given the enumeration order
build_folder_analysis_prompt(s, order) ==
  << "You are a principal-level software architect.\n",
     "Analyze the ENTIRE project located at:\n" \o PathStr(Path(s)) \o "\n\n",
     "Files included:\n" >>
    \o JoinLines(order)
    \o << "\n\n",
          "For EVERY important code file, provide:\n",
          "- purpose summary\n",
          "- logic explanation\n",
          "- major bugs or risks\n",
          "- inefficiencies\n",
          "- weak architecture\n",
          "- security issues\n",
          "- dead code\n",
          "- concrete refactor recommendations\n\n",
          "Then propose:\n",
          "- improved folder structure\n",
          "- improved module boundaries\n",
          "- improved architecture\n",
          "- cleanup and modernization plan\n" >>

\* build_project_qa_prompt(folder, question), given the enumeration order
build_project_qa_prompt(s, question, order) ==
  << "You are an expert senior engineer. Answer questions about this codebase.\n\n",
     "Project root: " \o PathStr(Path(s)) \o "\n\n",
     "Files:\n" >>
    \o JoinLines(order)
    \o << "\n\n", "User question:\n" \o Join(question) >>

\* build_diff_prompt(file_a, file_b), given the two texts read
build_diff_prompt(sa, sb, text_a, text_b) ==
  << "You are an expert senior engineer. Compare the following two files.\n",
     "Provide:\n",
     "- a unified diff\n",
     "- summary of functional changes\n",
     "- improvements introduced\n",
     "- potential regressions\n",
     "- style / architecture changes\n",
     "- recommendations for further improvements\n\n",
     "File A: " \o Join(sa) \o "\n" >>
    \o text_a
    \o << "\n\n", "File B: " \o Join(sb) \o "\n" >>
    \o text_b
    \o << "\n\n", "Now produce the full analysis." >>

\* the prompt run_generate_file assembles
generate_file_prompt(spec) ==
  << "Generate the requested file. Output ONLY valid file content.\n\n",
     "User specification:\n" \o Join(spec) >>

(***************************************************************************)
(* The inputs of a run: the environment's credential, the command line and *)
(* the disk the process starts on.                                         *)
(***************************************************************************)
RECURSIVE SubsetsUpTo(_, _)
\* the subsets of S with at most k elements
SubsetsUpTo(S, k) ==
  IF k = 0 THEN { {} }
  ELSE LET prev == SubsetsUpTo(S, k - 1)
       IN  prev \cup UNION { { t \cup {x} : x \in S } : t \in prev }

\* the values each option is given in the runs
OptionValues(name) ==
  CASE name \in {"explain", "fix", "refactor"} -> {S_a_py, S_gone_py, S_empty}
    [] name \in {"analyze_folder", "project_qa"} -> {S_proj, S_empty}
    [] name = "question" -> {S_question, S_empty}
    [] name = "generate_file" -> {S_spec, S_empty}
    [] name = "diff" -> { <<S_a_py, S_a_py>>, <<S_a_py, S_gone_py>>, <<S_gone_py, S_a_py>>,
                          <<S_proj, S_gone_py>> }
    [] name \in {"fix_folder", "refactor_folder", "rewrite_folder"} -> {S_proj, S_dot, S_empty}
    [] name = "out" -> {S_out, S_empty}
    [] name = "file" -> {S_a_py, S_gone_py}
    [] name = "prompt" -> {S_prompt}
    [] name = "max_tokens" -> {256}
    [] name = "temperature" -> {"0.7"}

ModeFlags ==
  { "explain", "fix", "refactor", "analyze_folder", "project_qa", "generate_file",
    "diff", "fix_folder", "refactor_folder", "rewrite_folder" }

OptionNames ==
  ModeFlags \cup {"question", "out", "file", "prompt", "max_tokens", "temperature"}

Options == UNION { { [opt |-> n, val |-> v] : v \in OptionValues(n) } : n \in OptionNames }

\* a command line gives each option at most once
WellFormed(cl) == \A o1, o2 \in cl : o1.opt = o2.opt => o1 = o2

CmdLines == { cl \in SubsetsUpTo(Options, MaxFlags) : WellFormed(cl) }

\* the disk holding the leaves L and the directories above them
DiskOf(L) ==
  LET paths == { l.p : l \in L }
      dirs  == UNION { Prefixes(PathParent(p)) : p \in paths }
  IN  [ q \in paths \cup dirs |->
          IF q \in paths THEN (CHOOSE l \in L : l.p = q).e ELSE DirEntry ]

Leaf(p, e) == [p |-> p, e |-> e]

\* what the batch root "proj" may hold
TreeCandidates ==
  { Leaf(<<N_proj, N_main_py>>, FileEntry(<< "print(1)" >>)),
    Leaf(<<N_proj, N_sub, N_Util_CPP>>, FileEntry(<< "int x;" >>)),
    Leaf(<<N_proj, N_sub, N_notes_txt>>, FileEntry(<< "todo" >>)),
    Leaf(<<N_proj, N_sub, N_deep, N_App_java>>, FileEntry(<< "class App {}" >>)),
    Leaf(<<N_proj, N_dot_py>>, FileEntry(<< "hidden" >>)),
    Leaf(<<N_proj, N_pkg_js>>, DirEntry) }

\* files that may exist beforehand where the program writes
StaleCandidates ==
  { Leaf(<<N_proj \o SFX_fixed, N_main_py>>, FileEntry(<< "old" >>)),
    Leaf(<<N_proj \o SFX_refactored, N_old_py>>, FileEntry(<< "old" >>)),
    Leaf(<<N_proj \o SFX_rewritten, N_notes_txt>>, FileEntry(<< "old" >>)),
    Leaf(<<N_out, N_res_txt>>, FileEntry(<< "old" >>)) }

\* "proj" is absent, a regular file, or a directory with a tree
ProjVariants ==
  { {} , { Leaf(<<N_proj>>, FileEntry(<< "not a folder" >>)) } }
    \cup { { Leaf(<<N_proj>>, DirEntry) } \cup t : t \in SubsetsUpTo(TreeCandidates, MaxFiles) }

\* the file a.py of the current directory, which every run starts with
BaseLeaves == { Leaf(<<N_a_py>>, FileEntry(<< "x = 1" >>)) }

\* the disks of the folder runs: every variant of "proj" and of the stale files
Disks ==
  { DiskOf(BaseLeaves \cup pv \cup st) :
      pv \in ProjVariants, st \in SubsetsUpTo(StaleCandidates, MaxStale) }

\* the disks of the runs over all command lines: "proj" holds main.py
PlainDisks ==
  { DiskOf(BaseLeaves
             \cup { Leaf(<<N_proj>>, DirEntry),
                    Leaf(<<N_proj, N_main_py>>, FileEntry(<< "print(1)" >>)) }
             \cup st) :
      st \in SubsetsUpTo(StaleCandidates, MaxStale) }

\* the command lines of the folder runs: one folder mode on "proj" or ".",
\* with or without the two sampling options
FolderCmdLines ==
  { { [opt |-> f, val |-> v] } \cup sampling :
      f \in {"fix_folder", "refactor_folder", "rewrite_folder"},
      v \in {S_proj, S_dot},
      sampling \in SUBSET { [opt |-> "max_tokens", val |-> 256],
                            [opt |-> "temperature", val |-> "0.7"] } }

\* os.environ.get("ANTHROPIC_API_KEY"): None, empty, or a key
ApiKeys == { << >>, << "" >>, << "sk-ant-key" >> }

(***************************************************************************)
(* The state of one process run.                                           *)
(***************************************************************************)
VARIABLES
  apiKey,       \* the environment's ANTHROPIC_API_KEY
  argv,         \* the command line
  disk,         \* the file system
  disk0,        \* the file system the process started on (history)
  pc,           \* "boot", "main", a handler's name, "done", "exited", "raised"
  bpc,          \* position inside a folder handler
  args,         \* the parsed namespace
  stdout,       \* the printed texts, in order
  requests,     \* the requests handed to client.messages.create, in order
  outstanding,  \* completion calls sent and not yet returned
  exitStatus,   \* -1 while running, then the process's exit status
  raised,       \* the uncaught exception, "" if none
  visited,      \* the files the folder loop has taken from iter_code_files
  src,          \* the folder loop's src
  dst,          \* the folder loop's dst
  prompt,       \* the prompt built last
  reply,        \* the reply received last
  count,        \* the folder loop's count
  written,      \* the paths the folder loop wrote, in order (history)
  reads,        \* the paths whose text was read (history)
  outcomes,     \* the outcomes of the completion calls, in order (history)
  ran,          \* the handlers main entered, in order (history)
  fin,          \* input of a run of a pure helper
  fout          \* its result

vars ==
  << apiKey, argv, disk, disk0, pc, bpc, args, stdout, requests, outstanding,
     exitStatus, raised, visited, src, dst, prompt, reply, count, written,
     reads, outcomes, ran, fin, fout >>

loopVars == << visited, src, dst, count, written >>

harnessVars == << fin, fout >>

histVars == << reads, outcomes, ran >>

envVars == << apiKey, argv, disk0 >>

\* the values the process-local variables hold before they are assigned
Idle ==
  /\ bpc = "none"
  /\ args = << >>
  /\ stdout = << >>
  /\ requests = << >>
  /\ outstanding = 0
  /\ exitStatus = -1
  /\ raised = ""
  /\ visited = {}
  /\ src = << >>
  /\ dst = << >>
  /\ prompt = << >>
  /\ reply = << >>
  /\ count = 0
  /\ written = << >>
  /\ reads = {}
  /\ outcomes = << >>
  /\ ran = << >>

\* any command line of at most MaxFlags options, on a plain disk
Init ==
  /\ apiKey \in ApiKeys
  /\ argv \in CmdLines
  /\ disk \in PlainDisks
  /\ disk0 = disk
  /\ pc = "boot"
  /\ Idle
  /\ fin = << >>
  /\ fout = << >>

(***************************************************************************)
(* CONFIG: the module-level credential check                               *)
(***************************************************************************)
\* the credential check as "API_KEY is None"
KeyMissing_none_only(k) == k = << >>

\* "not API_KEY"
KeyMissing(k) == k = << >> \/ k[1] = ""

Startup ==
  /\ pc = "boot"
  /\ IF KeyMissing(apiKey)
       THEN /\ stdout' = stdout \o << << "[ERROR] Missing ANTHROPIC_API_KEY environment variable." >>,
                                      << "Run this in PowerShell:" >>,
                                      << "  setx ANTHROPIC_API_KEY \"sk-ant-...\"" >> >>
            /\ exitStatus' = 1
            /\ pc' = "exited"
       ELSE /\ pc' = "main"
            /\ UNCHANGED << stdout, exitStatus >>
  /\ UNCHANGED << envVars, disk, bpc, args, requests, outstanding, raised,
                  loopVars, prompt, reply, harnessVars, histVars >>

(***************************************************************************)
(* MAIN                                                                    *)
(***************************************************************************)
main ==
  /\ pc = "main"
  /\ args' = parse_args(argv)
  /\ pc' = SelectHandler(args')
  /\ bpc' = IF pc' \in {"run_fix_folder", "run_refactor_folder", "run_rewrite_folder"}
              THEN "enter" ELSE bpc
  /\ ran' = Append(ran, pc')
  /\ UNCHANGED << envVars, disk, stdout, requests, outstanding, exitStatus, raised,
                  loopVars, prompt, reply, harnessVars, reads, outcomes >>

(***************************************************************************)
(* EXECUTION MODES: the single-result handlers                             *)
(***************************************************************************)
\* an exception leaves the handler and main uncaught
Raise(error, rd) ==
  /\ raised' = error
  /\ exitStatus' = 1
  /\ pc' = "raised"
  /\ reads' = reads \cup rd
  /\ UNCHANGED << envVars, disk, bpc, args, stdout, requests, outstanding,
                  loopVars, prompt, reply, harnessVars, outcomes, ran >>

\* reply = call_claude(...); write_output_if_needed(args, reply); return
\* (rd: the files the prompt builder read)
CallAndWrite(p, rd, max_tokens, temperature) ==
  \E outcome \in ApiOutcomes :
    LET rep == call_claude_result(outcome)
        w   == write_output_if_needed(args, rep, stdout, disk)
    IN  /\ prompt' = p
        /\ reads' = reads \cup rd
        /\ outcomes' = Append(outcomes, outcome)
        /\ requests' = Append(requests, Request(p, max_tokens, temperature))
        /\ reply' = rep
        /\ stdout' = w.stdout
        /\ disk' = w.disk
        /\ exitStatus' = 0
        /\ pc' = "done"
        /\ UNCHANGED << envVars, bpc, args, outstanding, raised, loopVars, harnessVars, ran >>

run_one_shot ==
  /\ pc = "run_one_shot"
  /\ IF Truthy(args.file)
       THEN LET r == read_file(disk, args.file[1])
            IN  IF r.ok
                  THEN CallAndWrite(build_single_prompt_file(args, r.text),
                                    {Path(args.file[1])}, args.max_tokens, args.temperature)
                  ELSE Raise(r.error, {})
       ELSE CallAndWrite(build_single_prompt_plain(args), {},
                         args.max_tokens, args.temperature)

run_explain ==
  /\ pc = "run_explain"
  /\ LET r == read_file(disk, args.explain[1])
     IN  IF r.ok
           THEN CallAndWrite(build_explain_prompt(args.explain[1], r.text),
                             {Path(args.explain[1])},
                             CallDefaultMaxTokens, CallDefaultTemperature)
           ELSE Raise(r.error, {})

run_fix ==
  /\ pc = "run_fix"
  /\ LET r == read_file(disk, args.fix[1])
     IN  IF r.ok
           THEN CallAndWrite(build_fix_prompt(args.fix[1], r.text),
                             {Path(args.fix[1])},
                             CallDefaultMaxTokens, CallDefaultTemperature)
           ELSE Raise(r.error, {})

run_refactor ==
  /\ pc = "run_refactor"
  /\ LET r == read_file(disk, args.refactor[1])
     IN  IF r.ok
           THEN CallAndWrite(build_refactor_prompt(args.refactor[1], r.text),
                             {Path(args.refactor[1])},
                             CallDefaultMaxTokens, CallDefaultTemperature)
           ELSE Raise(r.error, {})

run_analyze_folder ==
  /\ pc = "run_analyze_folder"
  /\ \E order \in Orders(ListedEntries(disk, Path(args.analyze_folder[1]))) :
       CallAndWrite(build_folder_analysis_prompt(args.analyze_folder[1], order), {},
                    args.max_tokens, args.temperature)

run_project_qa ==
  /\ pc = "run_project_qa"
  /\ \E order \in Orders(ListedEntries(disk, Path(args.project_qa[1]))) :
       CallAndWrite(build_project_qa_prompt(args.project_qa[1], args.question[1], order), {},
                    CallDefaultMaxTokens, CallDefaultTemperature)

run_generate_file ==
  /\ pc = "run_generate_file"
  /\ CallAndWrite(generate_file_prompt(args.generate_file[1]), {},
                  CallDefaultMaxTokens, CallDefaultTemperature)

run_diff ==
  /\ pc = "run_diff"
  /\ LET file_a == args.diff[1][1]
         file_b == args.diff[1][2]
         ra == read_file(disk, file_a)
         rb == read_file(disk, file_b)
     IN  IF ~ra.ok THEN Raise(ra.error, {})
         ELSE IF ~rb.ok THEN Raise(rb.error, {Path(file_a)})
         ELSE CallAndWrite(build_diff_prompt(file_a, file_b, ra.text, rb.text),
                           {Path(file_a), Path(file_b)},
                           CallDefaultMaxTokens, CallDefaultTemperature)

(***************************************************************************)
(* EXECUTION MODES: the folder handlers.  The three handlers are the same  *)
(* code up to the output suffix, the prompt builder and the words of their *)
(* messages; FolderHandler is that code, one disjunct per step.            *)
(***************************************************************************)
\* the root check without its is_dir half
InvalidRoot_exists_only(d, root) == ~Exists(d, root)

\* "if not root.exists() or not root.is_dir()"
InvalidRoot(d, root) == ~Exists(d, root) \/ ~IsDir(d, root)

\* the check of the root, out_root and the opening messages
FolderEnter(rootArg, suffix, ing, warn) ==
  LET root == Path(rootArg)
  IN  /\ bpc = "enter"
      /\ IF InvalidRoot(disk, root)
           THEN /\ stdout' = Append(stdout,
                       << "[ERROR] Folder not found or not a directory: " \o PathStr(root) >>)
                /\ exitStatus' = 0
                /\ pc' = "done"
                /\ bpc' = "none"
                /\ UNCHANGED << envVars, disk, args, requests, outstanding, raised,
                                loopVars, prompt, reply, harnessVars, histVars >>
           ELSE IF WithNameRaises(root)
             THEN Raise("ValueError", {})
             ELSE /\ stdout' = stdout
                       \o << << "[INFO] " \o ing \o " all supported code files in:\n  "
                                 \o PathStr(root) \o "\n[INFO] Output folder:\n  "
                                 \o PathStr(WithName(root, suffix)) \o "\n" >> >>
                       \o (IF warn
                             THEN << << "[WARN] This is an aggressive mode. Resulting code may not be drop-in compatible.\n" >> >>
                             ELSE << >>)
                  /\ count' = 0
                  /\ bpc' = "next"
                  /\ UNCHANGED << envVars, disk, pc, args, requests, outstanding, exitStatus,
                                  raised, visited, src, dst, written, prompt, reply, harnessVars, histVars >>

\* the head of "for src in iter_code_files(root)": the next file, rel, dst and
\* dst.parent.mkdir; or, the iterator exhausted, the closing message and return
FolderNext(rootArg, suffix, ed) ==
  LET root      == Path(rootArg)
      out_root  == WithName(root, suffix)
      remaining == iter_code_files(disk, root) \ visited
  IN  /\ bpc = "next"
      /\ IF remaining = {}
           THEN /\ stdout' = Append(stdout,
                       << "\n[DONE] " \o ed \o " ", ToString(count),
                          " file(s). Output project folder:\n  " \o PathStr(out_root) \o "\n" >>)
                /\ exitStatus' = 0
                /\ pc' = "done"
                /\ bpc' = "none"
                /\ UNCHANGED << envVars, disk, args, requests, outstanding, raised,
                                loopVars, prompt, reply, harnessVars, histVars >>
           ELSE \E f \in remaining :
                  /\ src' = f
                  /\ dst' = out_root \o RelativeTo(f, root)
                  /\ visited' = visited \cup {f}
                  /\ disk' = MkdirParents(disk, PathParent(dst'))
                  /\ bpc' = "build"
                  /\ UNCHANGED << envVars, pc, args, stdout, requests, outstanding, exitStatus,
                                  raised, count, written, prompt, reply, harnessVars, histVars >>

\* The builder each folder handler calls on a file.
FolderPrompt(mode, s, text) ==
  CASE mode = "fix"      -> build_fix_prompt(s, text)
    [] mode = "refactor" -> build_refactor_prompt(s, text)
    [] mode = "rewrite"  -> build_rewrite_prompt(s, text)

\* prompt = build_..._prompt(str(src))
FolderBuild(mode) ==
  /\ bpc = "build"
  /\ LET r == read_file(disk, PathChars(src))
     IN  IF r.ok
           THEN /\ prompt' = FolderPrompt(mode, PathChars(src), r.text)
                /\ reads' = reads \cup {src}
                /\ bpc' = "send"
                /\ UNCHANGED << envVars, disk, pc, args, stdout, requests, outstanding,
                                exitStatus, raised, loopVars, reply, harnessVars,
                                outcomes, ran >>
           ELSE Raise(r.error, {})

\* call_claude(...) up to client.messages.create being entered
FolderSend ==
  /\ bpc = "send"
  /\ requests' = Append(requests, Request(prompt, args.max_tokens, args.temperature))
  /\ outstanding' = outstanding + 1
  /\ bpc' = "recv"
  /\ UNCHANGED << envVars, disk, pc, args, stdout, exitStatus, raised, loopVars,
                  prompt, reply, harnessVars, histVars >>

\* client.messages.create returns or fails; call_claude returns the reply
FolderRecv ==
  /\ bpc = "recv"
  /\ \E outcome \in ApiOutcomes :
       /\ reply' = call_claude_result(outcome)
       /\ outcomes' = Append(outcomes, outcome)
  /\ outstanding' = outstanding - 1
  /\ bpc' = "write"
  /\ UNCHANGED << envVars, disk, pc, args, stdout, requests, exitStatus, raised,
                  loopVars, prompt, harnessVars, reads, ran >>

\* dst.write_text(reply)
FolderWrite ==
  /\ bpc = "write"
  /\ disk' = WriteText(disk, dst, reply)
  /\ written' = Append(written, dst)
  /\ bpc' = "progress"
  /\ UNCHANGED << envVars, pc, args, stdout, requests, outstanding, exitStatus, raised,
                  visited, src, dst, count, prompt, reply, harnessVars, histVars >>

\* the progress step with the increment of count left out
FolderProgress_no_count(ed) ==
  /\ bpc = "progress"
  /\ stdout' = Append(stdout,
         << "[OK] " \o ed \o " " \o PathStr(src) \o " -> " \o PathStr(dst) >>)
  /\ bpc' = "next"
  /\ UNCHANGED << envVars, disk, pc, args, requests, outstanding, exitStatus, raised,
                  visited, src, dst, count, written, prompt, reply, harnessVars, histVars >>

\* print("[OK] ..."); count += 1
FolderProgress(ed) ==
  /\ bpc = "progress"
  /\ stdout' = Append(stdout,
         << "[OK] " \o ed \o " " \o PathStr(src) \o " -> " \o PathStr(dst) >>)
  /\ count' = count + 1
  /\ bpc' = "next"
  /\ UNCHANGED << envVars, disk, pc, args, requests, outstanding, exitStatus, raised,
                  visited, src, dst, written, prompt, reply, harnessVars, histVars >>

FolderHandler(rootArg, suffix, mode, ing, ed, warn) ==
  \/ FolderEnter(rootArg, suffix, ing, warn)
  \/ FolderNext(rootArg, suffix, ed)
  \/ FolderBuild(mode)
  \/ FolderSend
  \/ FolderRecv
  \/ FolderWrite
  \/ FolderProgress(ed)

run_fix_folder ==
  /\ pc = "run_fix_folder"
  /\ FolderHandler(args.fix_folder[1], SFX_fixed, "fix",
                   "Fixing", "Fixed", FALSE)

run_refactor_folder ==
  /\ pc = "run_refactor_folder"
  /\ FolderHandler(args.refactor_folder[1], SFX_refactored, "refactor",
                   "Refactoring", "Refactored", FALSE)

run_rewrite_folder ==
  /\ pc = "run_rewrite_folder"
  /\ FolderHandler(args.rewrite_folder[1], SFX_rewritten, "rewrite",
                   "REWRITING", "Rewrote", TRUE)

Next ==
  \/ Startup
  \/ main
  \/ run_one_shot
  \/ run_explain
  \/ run_fix
  \/ run_refactor
  \/ run_analyze_folder
  \/ run_project_qa
  \/ run_generate_file
  \/ run_diff
  \/ run_fix_folder
  \/ run_refactor_folder
  \/ run_rewrite_folder

Spec == Init /\ [][Next]_vars

(***************************************************************************)
(* The folder runs: a folder-mode command line on every disk of Disks.     *)
(* No other handler is ever selected there, so the steps are those of      *)
(* start-up, main and the three folder handlers.                           *)
(***************************************************************************)
InitBatch ==
  /\ apiKey \in ApiKeys
  /\ argv \in FolderCmdLines
  /\ disk \in Disks
  /\ disk0 = disk
  /\ pc = "boot"
  /\ Idle
  /\ fin = << >>
  /\ fout = << >>

NextBatch ==
  \/ Startup
  \/ main
  \/ run_fix_folder
  \/ run_refactor_folder
  \/ run_rewrite_folder

SpecBatch == InitBatch /\ [][NextBatch]_vars

(***************************************************************************)
(* The project-level runs: --analyze-folder or --project-qa on "proj",     *)
(* with or without --out, on every disk of Disks.                          *)
(***************************************************************************)
ListingCmdLines ==
  { mode \cup out :
      mode \in { { [opt |-> "analyze_folder", val |-> S_proj] },
                 { [opt |-> "project_qa", val |-> S_proj],
                   [opt |-> "question", val |-> S_question] } },
      out \in SUBSET { [opt |-> "out", val |-> S_out] } }

InitListing ==
  /\ apiKey \in ApiKeys
  /\ argv \in ListingCmdLines
  /\ disk \in Disks
  /\ disk0 = disk
  /\ pc = "boot"
  /\ Idle
  /\ fin = << >>
  /\ fout = << >>

NextListing ==
  \/ Startup
  \/ main
  \/ run_analyze_folder
  \/ run_project_qa

SpecListing == InitListing /\ [][NextListing]_vars

(***************************************************************************)
(* Vocabulary of the properties.                                           *)
(***************************************************************************)
FolderFlags == {"fix_folder", "refactor_folder", "rewrite_folder"}

FolderHandlers == {"run_fix_folder", "run_refactor_folder", "run_rewrite_folder"}

SingleHandlers ==
  { "run_one_shot", "run_explain", "run_fix", "run_refactor", "run_analyze_folder",
    "run_project_qa", "run_generate_file", "run_diff" }

\* a folder handler was entered in this run
FolderRun == ran # << >> /\ ran[1] \in FolderHandlers

\* the folder flag that handler belongs to, its root and its output root
RunFlag ==
  IF ran[1] = "run_fix_folder" THEN "fix_folder"
  ELSE IF ran[1] = "run_refactor_folder" THEN "refactor_folder"
  ELSE "rewrite_folder"

RunSuffix ==
  IF ran[1] = "run_fix_folder" THEN SFX_fixed
  ELSE IF ran[1] = "run_refactor_folder" THEN SFX_refactored
  ELSE SFX_rewritten

RunRoot == Path((CHOOSE o \in argv : o.opt = RunFlag).val)

RunOutRoot == Append(PathParent(RunRoot), PathName(RunRoot) \o RunSuffix)

\* the root named on the command line was an existing directory at the start
RootIsDir == RunRoot = << >> \/ (RunRoot \in DOMAIN disk0 /\ disk0[RunRoot].kind = "dir")

\* the relative paths of the files of disk d below dir
FilesBelow(d, dir) ==
  { RelativeTo(p, dir) : p \in { q \in DOMAIN d : Under(q, dir) /\ d[q].kind = "file" } }

\* the relative paths of the input files whose lower-cased extension is supported
SupportedRel ==
  { rel \in FilesBelow(disk0, RunRoot) : Lower(Suffix(rel[Len(rel)])) \in SUPPORTED_EXTS }

\* the relative paths the run wrote
WrittenRel == { RelativeTo(written[i], RunOutRoot) : i \in 1..Len(written) }

\* a folder run over an existing directory has returned
FolderRunFinished == FolderRun /\ RootIsDir /\ pc = "done"

(***************************************************************************)
(* C1 as stated: after a finished folder run over an existing directory,   *)
(* the relative paths of the files in the output tree are exactly those of *)
(* the supported files under the input root.                               *)
(***************************************************************************)
C1_AsStated == FolderRunFinished => FilesBelow(disk, RunOutRoot) = SupportedRel

(***************************************************************************)
(* C1, amended: after a finished folder run over an existing directory,    *)
(* the run has written exactly one output file for every supported input   *)
(* file, at the same relative path, and has written nothing else; the      *)
(* files of the output tree are those files together with the files the    *)
(* output tree already held before the run, which the run leaves in place. *)
(***************************************************************************)
C1_Mirror ==
  FolderRunFinished =>
    /\ WrittenRel = SupportedRel
    /\ \A i, j \in 1..Len(written) : written[i] = written[j] => i = j
    /\ \A rel \in SupportedRel : IsFile(disk, RunOutRoot \o rel)
    /\ FilesBelow(disk, RunOutRoot) = SupportedRel \cup FilesBelow(disk0, RunOutRoot)
    /\ \A rel \in FilesBelow(disk0, RunOutRoot) \ SupportedRel :
         disk[RunOutRoot \o rel] = disk0[RunOutRoot \o rel]

\* C1's case: two supported files mirrored, an unsupported file skipped, and
\* a stale file in the output tree
C1_Witness ==
  /\ FolderRunFinished
  /\ Cardinality(SupportedRel) >= 2
  /\ FilesBelow(disk0, RunRoot) # SupportedRel
  /\ FilesBelow(disk0, RunOutRoot) # {}

(***************************************************************************)
(* C2 as stated: when every completion call fails, a folder run over a     *)
(* root holding N supported files does not abort; on its return it has     *)
(* made N calls and written N files, each holding the error-sentinel text, *)
(* and the closing message reports N.                                      *)
(***************************************************************************)
AllCallsFailed == \A i \in 1..Len(outcomes) : outcomes[i] = "fail"

C2_Outcome ==
  LET N == Cardinality(SupportedRel)
  IN  /\ Len(requests) = N
      /\ Len(written) = N
      /\ Cardinality(WrittenRel) = N
      /\ \A i \in 1..Len(written) :
           /\ IsFile(disk, written[i])
           /\ disk[written[i]].text # << >>
           /\ disk[written[i]].text[1] = API_ERROR_PREFIX
      /\ stdout # << >>
      /\ stdout[Len(stdout)][2] = ToString(N)

C2_AsStated ==
  (FolderRun /\ RootIsDir /\ AllCallsFailed) =>
    /\ pc # "raised"
    /\ pc = "done" => C2_Outcome

\* C2 holds of the roots whose path has a final component (every root but ".")
C2_NamedRoot ==
  (FolderRun /\ RootIsDir /\ RunRoot # << >> /\ AllCallsFailed) =>
    /\ pc # "raised"
    /\ pc = "done" => C2_Outcome

(***************************************************************************)
(* C6: when the root of a folder mode does not exist or is not a           *)
(* directory, the handler reports the error and returns without raising;   *)
(* it creates and changes nothing on disk, reads no file and makes no      *)
(* completion call.                                                        *)
(***************************************************************************)
C6_InvalidRoot ==
  (FolderRun /\ ~RootIsDir) =>
    /\ pc \in FolderHandlers \cup {"done"}
    /\ raised = ""
    /\ disk = disk0
    /\ reads = {}
    /\ requests = << >>
    /\ outstanding = 0
    /\ pc = "done" =>
         /\ exitStatus = 0
         /\ stdout = << << "[ERROR] Folder not found or not a directory: "
                            \o PathStr(RunRoot) >> >>

\* C6's case: the handler has returned on a root that is a regular file
C6_Witness ==
  /\ FolderRun
  /\ pc = "done"
  /\ RunRoot \in DOMAIN disk0
  /\ disk0[RunRoot].kind = "file"

(***************************************************************************)
(* C10: a folder run works on one file at a time, each file passing in     *)
(* order through mkdir of the destination's parents, read and prompt, one  *)
(* completion call, the write of the reply, and the progress line with the *)
(* count; so at most one call is outstanding, the previous file is written *)
(* before the next call is sent, one call was made per file written, and   *)
(* between files the count is the number of output files written.          *)
(***************************************************************************)
C10_OneAtATime ==
  FolderRun =>
    LET taken  == Cardinality(visited)
        built  == Cardinality(reads)
        sent   == Len(requests)
        got    == Len(outcomes)
        wrote  == Len(written)
    IN  /\ outstanding = sent - got
        /\ outstanding \in {0, 1}
        /\ bpc \in {"enter", "next", "none"} =>
             /\ taken = count /\ built = count /\ sent = count
             /\ got = count /\ wrote = count
        /\ bpc = "build" =>
             /\ taken = count + 1 /\ built = count /\ sent = count
             /\ got = count /\ wrote = count
             /\ IsDir(disk, PathParent(dst))
        /\ bpc = "send" =>
             /\ taken = count + 1 /\ built = count + 1 /\ sent = count
             /\ got = count /\ wrote = count
        /\ bpc = "recv" =>
             /\ taken = count + 1 /\ built = count + 1 /\ sent = count + 1
             /\ got = count /\ wrote = count
        /\ bpc = "write" =>
             /\ taken = count + 1 /\ built = count + 1 /\ sent = count + 1
             /\ got = count + 1 /\ wrote = count
        /\ bpc = "progress" =>
             /\ taken = count + 1 /\ built = count + 1 /\ sent = count + 1
             /\ got = count + 1 /\ wrote = count + 1
             /\ written[wrote] = dst
             /\ disk[dst] = FileEntry(reply)

\* C10's case: the first file is written and the second file's call is outstanding
C10_Witness ==
  /\ FolderRun
  /\ bpc = "recv"
  /\ Len(written) = 1
  /\ outstanding = 1

(***************************************************************************)
(* Vocabulary of the properties about the command line.                    *)
(***************************************************************************)
\* the option is on the command line
Given(name) == \E o \in argv : o.opt = name

\* the option is on the command line with a value that is not the empty string
GivenNonEmpty(name) == \E o \in argv : o.opt = name /\ o.val # << >>

\* the option's value, or the default when the option is not given
ValueOr(name, default) ==
  IF Given(name) THEN (CHOOSE o \in argv : o.opt = name).val ELSE default

(***************************************************************************)
(* C3 as stated: every request sent to the completion service carries the  *)
(* --max-tokens and --temperature of the command line, 4096 and 0.1 when   *)
(* they are not given.                                                     *)
(***************************************************************************)
C3_AsStated ==
  \A i \in 1..Len(requests) :
    /\ requests[i].max_tokens = ValueOr("max_tokens", 4096)
    /\ requests[i].temperature = ValueOr("temperature", "0.1")

\* what the code does: one-shot, analyze-folder and the folder modes send the
\* command line's values, the other six modes always send 4096 and 0.1
C3_ByMode ==
  \A i \in 1..Len(requests) :
    IF ran[1] \in {"run_one_shot", "run_analyze_folder"} \cup FolderHandlers
      THEN /\ requests[i].max_tokens = ValueOr("max_tokens", 4096)
           /\ requests[i].temperature = ValueOr("temperature", "0.1")
      ELSE /\ requests[i].max_tokens = 4096
           /\ requests[i].temperature = "0.1"

(***************************************************************************)
(* C4 as stated: main runs exactly one handler, that of the first mode     *)
(* flag set on the command line in the order explain, fix, refactor,       *)
(* analyze-folder, project-qa (only with --question given), generate-file, *)
(* diff, fix-folder, refactor-folder, rewrite-folder, and the one-shot     *)
(* handler when there is none.                                             *)
(***************************************************************************)
PriorityOrder ==
  << "explain", "fix", "refactor", "analyze_folder", "project_qa", "generate_file",
     "diff", "fix_folder", "refactor_folder", "rewrite_folder" >>

\* the handler of the first position of PriorityOrder that Sel selects
FirstSelected(Sel(_)) ==
  IF \E i \in 1..Len(PriorityOrder) : Sel(i)
    THEN "run_" \o PriorityOrder[CHOOSE i \in 1..Len(PriorityOrder) :
                                   Sel(i) /\ \A j \in 1..(i - 1) : ~Sel(j)]
    ELSE "run_one_shot"

SetOnCommandLine(i) ==
  /\ Given(PriorityOrder[i])
  /\ PriorityOrder[i] = "project_qa" => Given("question")

SetNonEmpty(i) ==
  /\ GivenNonEmpty(PriorityOrder[i])
  /\ PriorityOrder[i] = "project_qa" => GivenNonEmpty("question")

\* main has dispatched
Dispatched == pc \notin {"boot", "main", "exited"}

C5_MissingKey ==
  (apiKey = << >> \/ apiKey = << "" >>) =>
    /\ pc \in {"boot", "exited"}
    /\ pc = "exited" => exitStatus # 0
    /\ pc = "boot" => exitStatus = -1
    /\ args = << >>
    /\ ran = << >>
    /\ reads = {}
    /\ disk = disk0
    /\ requests = << >>
    /\ outstanding = 0

\* C5's case: the process has exited on an empty key
C5_Witness == apiKey = << "" >> /\ pc = "exited" /\ exitStatus = 1

(***************************************************************************)
(* C7: in a single-result mode the reply T goes to exactly one place,      *)
(* unchanged.  Without --out it is printed and the disk is as before.      *)
(* With --out P the missing parent directories of P exist afterwards, the  *)
(* file P holds exactly T whatever it held before, nothing else on disk    *)
(* has changed, and T itself is not printed.                               *)
(***************************************************************************)
SingleRunReturned == ran # << >> /\ ran[1] \in SingleHandlers /\ pc = "done"

OutPath == Path(ValueOr("out", << >>))

Referenced ==
  IF ran = << >> THEN << >>
  ELSE CASE ran[1] = "run_explain"  -> << args.explain[1] >>
         [] ran[1] = "run_fix"      -> << args.fix[1] >>
         [] ran[1] = "run_refactor" -> << args.refactor[1] >>
         [] ran[1] = "run_diff"     -> << args.diff[1][1], args.diff[1][2] >>
         [] ran[1] = "run_one_shot" -> IF Truthy(args.file) THEN << args.file[1] >> ELSE << >>
         [] OTHER -> << >>

\* a single-file mode was entered and one of its files did not exist
MissingRun == \E i \in 1..Len(Referenced) : ~Exists(disk0, Path(Referenced[i]))

\* the first of the files that cannot be read as a file
FirstUnreadable ==
  Referenced[CHOOSE i \in 1..Len(Referenced) :
               /\ ~IsFile(disk0, Path(Referenced[i]))
               /\ \A j \in 1..(i - 1) : IsFile(disk0, Path(Referenced[j]))]

\* the handler entered has taken its step
HandlerActed == ran # << >> /\ pc # ran[1]

\* no request, no output, no change on disk
NothingDone ==
  /\ requests = << >>
  /\ outstanding = 0
  /\ outcomes = << >>
  /\ stdout = << >>
  /\ disk = disk0

(***************************************************************************)
(* C11 as stated: in the modes explain, fix, refactor, diff and one-shot   *)
(* with --file, when a referenced file does not exist the run ends in an   *)
(* uncaught FileNotFoundError raised at the read, with no request sent,    *)
(* nothing printed and the disk as before; in diff mode for either of the  *)
(* two files.                                                              *)
(***************************************************************************)
C11_AsStated ==
  MissingRun =>
    /\ NothingDone
    /\ HandlerActed => /\ pc = "raised"
                       /\ raised = "FileNotFoundError"

(***************************************************************************)
(* C11: in the modes explain, fix, refactor, diff and one-shot with        *)
(* --file, when a referenced file does not exist the run ends in an        *)
(* uncaught exception raised at a read: no request is sent, nothing is     *)
(* printed, the disk is as before, and only files that exist were read.    *)
(* The exception is FileNotFoundError, except in diff mode when the first  *)
(* file is a directory and the second is missing: there the read of the    *)
(* first file fails first.                                                 *)
(***************************************************************************)
C11_NotFound ==
  MissingRun =>
    /\ NothingDone
    /\ \A q \in reads : IsFile(disk0, q)
    /\ HandlerActed =>
         /\ pc = "raised"
         /\ exitStatus = 1
         /\ raised = (IF Exists(disk0, Path(FirstUnreadable))
                        THEN "IsADirectoryError" ELSE "FileNotFoundError")

\* C11's case: diff of a file that exists with one that does not, with --out
\* naming a file that is already there
C11_Witness ==
  /\ ran = << "run_diff" >>
  /\ args.diff[1] = << S_a_py, S_gone_py >>
  /\ GivenNonEmpty("out")
  /\ OutPath \in DOMAIN disk0
  /\ pc = "raised"
  /\ raised = "FileNotFoundError"
  /\ reads = { Path(S_a_py) }

(***************************************************************************)
(* Vocabulary of the properties about the listing of a project-level       *)
(* prompt.                                                                 *)
(***************************************************************************)
\* a project-level handler was entered and has sent its request
ListingRun ==
  /\ ran # << >>
  /\ ran[1] \in {"run_analyze_folder", "run_project_qa"}
  /\ requests # << >>

\* the root the listing is taken of
ListingRoot ==
  Path(IF ran[1] = "run_analyze_folder" THEN args.analyze_folder[1] ELSE args.project_qa[1])

\* the number of fragments the prompt carries after the listing
ListingTail == IF ran[1] = "run_analyze_folder" THEN 15 ELSE 2

\* the listing: what the prompt carries between the "Files" line and the tail
Listing ==
  LET m == requests[1].messages
  IN  SubSeq(m, 4, Len(m) - ListingTail)

\* the positions of the listing's lines
LinePositions == { i \in 1..Len(Listing) : i % 2 = 1 }

\* the listing is lines separated by single line breaks
OnePathPerLine ==
  /\ Listing # << >> => Len(Listing) % 2 = 1
  /\ \A i \in 1..Len(Listing) : (i % 2 = 0) <=> (Listing[i] = "\n")

\* the listing shows exactly the paths of S, each on one line of its own
ListsExactly(S) ==
  /\ OnePathPerLine
  /\ { Listing[i] : i \in LinePositions } = { PathStr(q) : q \in S }
  /\ Cardinality(LinePositions) = Cardinality(S)

(***************************************************************************)
(* C12 as stated: the listing in the prompt of analyze-folder and          *)
(* project-qa shows every file-system entry under the root, files and      *)
(* directories alike, each exactly once, one per line, and nothing from    *)
(* outside the root.                                                       *)
(***************************************************************************)
C12_AsStated == ListingRun => ListsExactly(RGlob(disk0, ListingRoot))

(***************************************************************************)
(* C12: the listing in the prompt of analyze-folder and project-qa shows   *)
(* every regular file under the root, of any extension and at any depth,   *)
(* each exactly once, one path per line; directories are not listed and    *)
(* nothing from outside the root appears.                                  *)
(***************************************************************************)
C12_FilesOnly ==
  ListingRun =>
    /\ ListsExactly({ q \in RGlob(disk0, ListingRoot) : IsFile(disk0, q) })
    /\ \A i \in LinePositions :
         \E q \in DOMAIN disk0 : /\ Listing[i] = PathStr(q)
                                 /\ Under(q, ListingRoot)
                                 /\ disk0[q].kind = "file"

\* C12's case: the root holds a file of an unsupported extension, a file
\* three levels down and a directory named like a code file
C12_Witness ==
  /\ ListingRun
  /\ pc = "done"
  /\ << N_proj, N_pkg_js >> \in DOMAIN disk0
  /\ { Listing[i] : i \in LinePositions } = { "proj/sub/notes.txt", "proj/sub/deep/App.java" }

(***************************************************************************)
(* Runs of the pure helpers: the input is drawn at the start, one step     *)
(* applies the helper.                                                     *)
(***************************************************************************)
\* the process-level variables of a helper run, which it never touches
HelperIdle ==
  /\ apiKey = << "sk-ant-key" >>
  /\ argv = {}
  /\ disk = DiskOf(BaseLeaves)
  /\ disk0 = disk
  /\ Idle

\* str.capitalize-like variant of an extension: its first letter in upper case
CapitalizedExt(e) == [i \in 1..Len(e) |-> IF i = 2 THEN UpperChar(e[i]) ELSE e[i]]

\* extensions outside the table, and none
OtherExts ==
  { << >>, <<".","t","x","t">>, <<".","m","d">>, <<".","p","y","c">>, <<".","g","z">> }

Stems == { << "a" >>, << >>, <<"a",".","t","a","r">>, <<"M","y">> }

\* file names: a stem, an extension in one of three casings, perhaps a trailing dot
LangInputs ==
  { stem \o ext \o dot :
      stem \in Stems,
      ext \in UNION { { e, Upper(e), CapitalizedExt(e) } : e \in SUPPORTED_EXTS \cup OtherExts },
      dot \in { << >>, << "." >> } }

InitLang ==
  /\ HelperIdle
  /\ pc = "detect_language"
  /\ fin \in LangInputs
  /\ fout = << >>

DetectLanguage ==
  /\ pc = "detect_language"
  /\ fout' = << detect_language(fin) >>
  /\ pc' = "detect_language_done"
  /\ UNCHANGED << envVars, disk, bpc, args, stdout, requests, outstanding, exitStatus,
                  raised, loopVars, prompt, reply, histVars, fin >>

SpecLang == InitLang /\ [][DetectLanguage]_vars

\* the fragments a file text of the prompt runs is made of
TextFragments == { "x = 1\n", DIRECTIVE, "\n" }

Texts == UNION { [1..n -> TextFragments] : n \in 0..MaxText }

\* one path per extension of the table, one outside it, one without, one in capitals
PromptPaths ==
  { <<"s","r","c","/","f">> \o e : e \in SUPPORTED_EXTS \cup { <<".","t","x","t">>, << >> } }
    \cup { <<"F",".","P","Y">> }

PromptInputs ==
  [ mode : {"fix", "refactor", "rewrite"}, s : PromptPaths, text : Texts ]

InitPrompt ==
  /\ HelperIdle
  /\ pc = "build_prompt"
  /\ fin \in PromptInputs
  /\ fout = << >>

BuildPrompt ==
  /\ pc = "build_prompt"
  /\ fout' = CASE fin.mode = "fix" -> build_fix_prompt(fin.s, fin.text)
               [] fin.mode = "refactor" -> build_refactor_prompt(fin.s, fin.text)
               [] fin.mode = "rewrite" -> build_rewrite_prompt(fin.s, fin.text)
  /\ pc' = "build_prompt_done"
  /\ UNCHANGED << envVars, disk, bpc, args, stdout, requests, outstanding, exitStatus,
                  raised, loopVars, prompt, reply, histVars, fin >>

SpecPrompt == InitPrompt /\ [][BuildPrompt]_vars

(***************************************************************************)
(* C8 as stated: whatever the file text and the language, the rewrite      *)
(* prompt ends with the directive line, and the fix and refactor prompts   *)
(* do not contain the directive.                                           *)
(***************************************************************************)
\* how often the directive occurs among the fragments of p
Occurrences(p) == Cardinality({ i \in 1..Len(p) : p[i] = DIRECTIVE })

\* p ends with the directive and its line terminator
EndsWithDirective(p) ==
  /\ Len(p) >= 2
  /\ p[Len(p) - 1] = DIRECTIVE
  /\ p[Len(p)] = "\n"

C8_AsStated ==
  pc = "build_prompt_done" =>
    /\ fin.mode = "rewrite" => EndsWithDirective(fout)
    /\ fin.mode \in {"fix", "refactor"} => Occurrences(fout) = 0

(***************************************************************************)
(* C8, amended: whatever the file text and the language, the rewrite       *)
(* prompt ends with the directive line, which the builder adds once; the   *)
(* fix and refactor builders add no directive, so their prompts contain it *)
(* only where the file text itself does.                                   *)
(***************************************************************************)
C8_DirectiveOnlyFromRewrite ==
  pc = "build_prompt_done" =>
    /\ fin.mode = "rewrite" =>
         /\ EndsWithDirective(fout)
         /\ Occurrences(fout) = Occurrences(fin.text) + 1
    /\ fin.mode \in {"fix", "refactor"} => Occurrences(fout) = Occurrences(fin.text)

\* C8's case: a rewrite prompt built for a file whose text holds the directive
C8_Witness ==
  /\ pc = "build_prompt_done"
  /\ fin.mode = "rewrite"
  /\ Occurrences(fin.text) = 1
  /\ EndsWithDirective(fout)

(***************************************************************************)
(* C9: detect_language returns a tag for every name; it looks only at the  *)
(* lower-cased extension; an extension of the table gets the table's tag,  *)
(* any other extension or none gets text; and every extension of           *)
(* SUPPORTED_EXTS gets a tag other than text.                              *)
(***************************************************************************)
\* the table, as tag and extensions
LanguageTable ==
  { << "python", {".py", ".pyw"} >>,
    << "cpp", {".c", ".cpp", ".cc", ".cxx", ".h", ".hpp"} >>,
    << "java", {".java"} >>,
    << "kotlin", {".kt", ".kts"} >>,
    << "javascript", {".js", ".jsx"} >>,
    << "typescript", {".ts", ".tsx"} >>,
    << "csharp", {".cs"} >>,
    << "go", {".go"} >>,
    << "rust", {".rs"} >>,
    << "php", {".php"} >>,
    << "html", {".html", ".htm"} >>,
    << "css", {".css"} >>,
    << "json", {".json"} >>,
    << "yaml", {".yaml", ".yml"} >>,
    << "xml", {".xml"} >> }

C9_Classifies ==
  pc = "detect_language_done" =>
    LET ext == Join(Lower(Suffix(fin)))
    IN  /\ fout[1] \in { row[1] : row \in LanguageTable } \cup {"text"}
        /\ \A row \in LanguageTable : ext \in row[2] => fout[1] = row[1]
        /\ (\A row \in LanguageTable : ext \notin row[2]) => fout[1] = "text"
        /\ Lower(Suffix(fin)) \in SUPPORTED_EXTS => fout[1] # "text"
        /\ detect_language(Upper(fin)) = fout[1]
        /\ detect_language(Lower(fin)) = fout[1]

\* C9's case: a name whose extension is written in capitals, classified
C9_Witness ==
  /\ pc = "detect_language_done"
  /\ fin = <<"M","y",".","C","P","P">>
  /\ fout = << "cpp" >>

====
